---------------------------- MODULE Spec2Model ----------------------------
(***************************************************************************)
(* Model of the Python sidecar IPC layer of Portfolio Prism:               *)
(*   src/src-tauri/src/python_engine.rs  (PythonEngine)                    *)
(*   src/src-tauri/src/lib.rs            (run: the stdout/stderr router)   *)
(*                                                                         *)
(* Processes: the foreground tasks that invoke send_command, and           *)
(* the one background task spawned by run() that drains the sidecar's      *)
(* event stream.  tokio mutexes that are held across an await point        *)
(* (child, connected) have an explicit holder; the critical sections of    *)
(* pending and version contain no await and are single steps.              *)
(***************************************************************************)
EXTENDS Integers, Sequences, FiniteSets, TLC

\* ------------------------------------------------------------------ bounds
MaxId == 2

\* The foreground tasks (tauri command handlers) that call send_command.
Callers == {"c1", "c2"}
Ids == 1..MaxId
Versions == {"1.2.3", "2.0.0"}
NoVersion == "none"
\* 0 stands for "no id": next_id starts at 1, so 0 is never allocated.
NoId == 0

VARIABLES
    child,          \* PythonEngine.child: TRUE iff Some(CommandChild)
    child_lock,     \* holders of the child mutex: {} or one caller
    pending,        \* PythonEngine.pending: id -> sender (named by its channel)
    next_id,        \* PythonEngine.next_id
    connected,      \* PythonEngine.connected
    connected_lock, \* holders of the connected mutex: {} or the router
    version,        \* PythonEngine.version
    chan,           \* the oneshot channel created by the invocation that got id i
    pc,             \* position of each send_command caller
    rid,            \* the id local of each send_command invocation
    result,         \* what each send_command invocation returned
    stdin,          \* frames written to the sidecar's stdin, in order
    rpc,            \* position of the router task
    rver,           \* the version argument of the set_connected call in progress
    sink,           \* diagnostic sink: the stream whose line was printed last
    allocated       \* history: the ids fetch_add handed out, in order

vars == <<child, child_lock, pending, next_id, connected, connected_lock,
          version, chan, pc, rid, result, stdin, rpc, rver, sink,
          allocated>>

\* ------------------------------------------------------------ wire values
\* EngineResponse: id and status; data / error are opaque to this layer.
NoResp == [id |-> NoId, status |-> "none"]
Response(i, s) == [id |-> i, status |-> s]

\* Result<EngineResponse, String> of send_command.
NoResult == [kind |-> "none", resp |-> NoResp]
Ok(r) == [kind |-> "Ok", resp |-> r]
Err(e) == [kind |-> e, resp |-> NoResp]

\* A oneshot channel: not created, empty, holding a value, sender dropped
\* without sending, or receiver dropped / value taken.
ChanNone == [st |-> "none", val |-> NoResp]
ChanEmpty == [st |-> "empty", val |-> NoResp]
ChanClosed == [st |-> "closed", val |-> NoResp]
ChanDone == [st |-> "done", val |-> NoResp]
ChanValue(r) == [st |-> "value", val |-> r]

\* json!({"id": id, "command": command, "payload": payload}) + "\n"
Frame(i) == [id |-> i, command |-> "cmd"]

\* A line of the sidecar's stdout, by the features parse_stdout looks at.
\*   shape   : "empty" (blank after trim), "text" (not JSON), "json"
\*   status  : the "status" member: absent, not a string, or the string
\*   version : the "version" member when it is a string, else NoVersion
\*   pid_ok  : "pid" is present and a u32
\*   id      : the "id" member when it is a u64, else NoId
\*   err_ok  : "error" is absent, null or {code, message}
Line(sh, st, v, p, i, e) ==
    [shape |-> sh, status |-> st, version |-> v, pid_ok |-> p, id |-> i, err_ok |-> e]

\* Representative stdout lines: blank, free text, handshakes (complete, and
\* with the "ready" marker but a member missing), a "success" response and
\* a response with a malformed "error" member for every id, an "error"
\* response, and other JSON.
Lines ==
    {Line("empty", "absent", NoVersion, FALSE, NoId, TRUE),
     Line("text", "absent", NoVersion, FALSE, NoId, TRUE),
     Line("json", "ready", NoVersion, TRUE, NoId, TRUE),
     Line("json", "ready", "1.2.3", FALSE, NoId, TRUE),
     Line("json", "ready", NoVersion, FALSE, 1, TRUE),
     Line("json", "absent", NoVersion, FALSE, 1, TRUE),
     Line("json", "nonstring", NoVersion, FALSE, 1, TRUE),
     Line("json", "success", NoVersion, FALSE, NoId, TRUE),
     Line("json", "error", NoVersion, FALSE, 1, TRUE)}
    \cup {Line("json", "ready", v, TRUE, NoId, TRUE) : v \in Versions}
    \cup {Line("json", "success", NoVersion, FALSE, i, TRUE) : i \in Ids}
    \cup {Line("json", "error", NoVersion, FALSE, i, FALSE) : i \in Ids}

\* Representative stderr lines: free text, a handshake and a response.
StderrLines ==
    {Line("text", "absent", NoVersion, FALSE, NoId, TRUE),
     Line("json", "ready", "1.2.3", TRUE, NoId, TRUE),
     Line("json", "success", NoVersion, FALSE, 1, TRUE)}

\* ------------------------------------------------------- pure functions
\* Mutant of parse_stdout: "status" is optional in a response.
parse_stdout_lenient(l) ==
    IF l.shape # "json" THEN [tag |-> "None", version |-> NoVersion, resp |-> NoResp]
    ELSE IF l.status = "ready"
         THEN IF l.version # NoVersion /\ l.pid_ok
              THEN [tag |-> "Ready", version |-> l.version, resp |-> NoResp]
              ELSE [tag |-> "None", version |-> NoVersion, resp |-> NoResp]
         ELSE IF l.id # NoId /\ l.err_ok
              THEN [tag |-> "Response", version |-> NoVersion,
                    resp |-> [id |-> l.id, status |-> l.status]]
              ELSE [tag |-> "None", version |-> NoVersion, resp |-> NoResp]

\* PythonEngine::parse_stdout: None, Ready(signal) or Response(response).
MsgNone == [tag |-> "None", version |-> NoVersion, resp |-> NoResp]
MsgReady(v) == [tag |-> "Ready", version |-> v, resp |-> NoResp]
MsgResponse(r) == [tag |-> "Response", version |-> NoVersion, resp |-> r]

parse_stdout(l) ==
    IF l.shape # "json" THEN MsgNone
    ELSE IF l.status = "ready"
         THEN IF l.version # NoVersion /\ l.pid_ok
              THEN MsgReady(l.version) ELSE MsgNone
         ELSE IF l.id # NoId /\ l.status \notin {"absent", "nonstring"} /\ l.err_ok
              THEN MsgResponse(Response(l.id, l.status)) ELSE MsgNone

\* HashMap::remove / HashMap::insert on the pending table.
MapRemove(p, i) == [k \in (DOMAIN p) \ {i} |-> p[k]]
MapInsert(p, i, tx) == [k \in (DOMAIN p) \cup {i} |-> IF k = i THEN tx ELSE p[k]]

\* Dropping a oneshot::Sender without sending: a waiting receiver sees Err.
DropSender(c) == IF c.st = "empty" THEN ChanClosed ELSE c
\* The channels after the sender stored under id i (if any) is dropped.
DropEntry(ch, p, i) ==
    IF i \in DOMAIN p THEN [ch EXCEPT ![p[i]] = DropSender(@)] ELSE ch
\* oneshot::Sender::send: the value is stored unless the receiver is gone.
SendOn(c, r) == IF c.st = "empty" THEN ChanValue(r) ELSE c

\* PythonEngine::is_connected: needs the connected mutex.
is_connected == connected
\* PythonEngine::get_version
get_version == version

\* ------------------------------------------------------------------- Init
\* PythonEngine::new, and run() before the router task is scheduled.
Init ==
    /\ child = FALSE
    /\ child_lock = {}
    /\ pending = << >>
    /\ next_id = 1
    /\ connected = FALSE
    /\ connected_lock = {}
    /\ version = NoVersion
    /\ chan = [i \in Ids |-> ChanNone]
    /\ pc = [c \in Callers |-> "idle"]
    /\ rid = [c \in Callers |-> NoId]
    /\ result = [c \in Callers |-> NoResult]
    /\ stdin = << >>
    /\ rpc = "spawn"
    /\ rver = NoVersion
    /\ sink = "none"
    /\ allocated = << >>

\* ----------------------------------------------------------- send_command
\* Invocations that passed the connected check and have not yet drawn an id.
\* SendCheck lets an invocation pass only while an id within MaxId is left
\* for it (the bound of the model; next_id itself is a u64).
AboutToAlloc == Cardinality({c \in Callers : pc[c] = "alloc"})

\* Mutant of SendCheck: the id is drawn before the connection check.
SendCheckAllocFirst(c) ==
    /\ pc[c] = "idle"
    /\ connected_lock = {}
    /\ IF is_connected
       THEN /\ next_id + AboutToAlloc <= MaxId
            /\ pc' = [pc EXCEPT ![c] = "alloc"]
            /\ UNCHANGED <<result, next_id>>
       ELSE /\ pc' = [pc EXCEPT ![c] = "done"]
            /\ next_id' = next_id + 1
            /\ result' = [result EXCEPT ![c] = Err("NotConnected")]
    /\ UNCHANGED <<child, child_lock, pending, connected, connected_lock,
                   version, chan, rid, stdin, rpc, rver, sink, allocated>>

\* Mutant of SendCheck: the connection check is skipped.
SendCheckSkipped(c) ==
    /\ pc[c] = "idle"
    /\ connected_lock = {}
    /\ next_id + AboutToAlloc <= MaxId
    /\ pc' = [pc EXCEPT ![c] = "alloc"]
    /\ UNCHANGED <<child, child_lock, pending, next_id, connected, connected_lock,
                   version, chan, rid, result, stdin, rpc, rver, sink, allocated>>

\* Mutant of SendCheck: the engine counts as connected once a version is
\* stored (get_version().is_some() instead of is_connected()).
SendCheckVersion(c) ==
    /\ pc[c] = "idle"
    /\ connected_lock = {}
    /\ IF get_version # NoVersion
       THEN /\ next_id + AboutToAlloc <= MaxId
            /\ pc' = [pc EXCEPT ![c] = "alloc"]
            /\ UNCHANGED result
       ELSE /\ pc' = [pc EXCEPT ![c] = "done"]
            /\ result' = [result EXCEPT ![c] = Err("NotConnected")]
    /\ UNCHANGED <<child, child_lock, pending, next_id, connected, connected_lock,
                   version, chan, rid, stdin, rpc, rver, sink,
                   allocated>>

\* if !self.is_connected().await { return Err("Python engine not connected") }
SendCheck(c) ==
    /\ pc[c] = "idle"
    /\ connected_lock = {}
    /\ IF is_connected
       THEN /\ next_id + AboutToAlloc <= MaxId
            /\ pc' = [pc EXCEPT ![c] = "alloc"]
            /\ UNCHANGED result
       ELSE /\ pc' = [pc EXCEPT ![c] = "done"]
            /\ result' = [result EXCEPT ![c] = Err("NotConnected")]
    /\ UNCHANGED <<child, child_lock, pending, next_id, connected, connected_lock,
                   version, chan, rid, stdin, rpc, rver, sink,
                   allocated>>

\* Mutant of SendAlloc: the counter is read (load) but not advanced.
SendAllocLoad(c) ==
    /\ pc[c] = "alloc"
    /\ rid' = [rid EXCEPT ![c] = next_id]
    /\ allocated' = Append(allocated, next_id)
    /\ chan' = [chan EXCEPT ![next_id] = ChanEmpty]
    /\ pc' = [pc EXCEPT ![c] = "register"]
    /\ UNCHANGED <<child, child_lock, pending, next_id, connected, connected_lock,
                   version, result, stdin, rpc, rver, sink>>

\* let id = self.next_id.fetch_add(1, SeqCst); let (tx, rx) = oneshot::channel();
SendAlloc(c) ==
    /\ pc[c] = "alloc"
    /\ rid' = [rid EXCEPT ![c] = next_id]
    /\ next_id' = next_id + 1
    /\ allocated' = Append(allocated, next_id)
    /\ chan' = [chan EXCEPT ![next_id] = ChanEmpty]
    /\ pc' = [pc EXCEPT ![c] = "register"]
    /\ UNCHANGED <<child, child_lock, pending, connected, connected_lock, version,
                   result, stdin, rpc, rver, sink>>

\* Mutant of SendRegister: the frame is sent without registering the sender.
SendRegisterSkip(c) ==
    /\ pc[c] = "register"
    /\ pc' = [pc EXCEPT ![c] = "lock_child"]
    /\ UNCHANGED <<child, child_lock, pending, next_id, connected, connected_lock,
                   version, chan, rid, result, stdin, rpc, rver, sink, allocated>>

\* pending.insert(id, tx): a sender already stored under id is dropped.
SendRegister(c) ==
    /\ pc[c] = "register"
    /\ pending' = MapInsert(pending, rid[c], rid[c])
    /\ chan' = DropEntry(chan, pending, rid[c])
    /\ pc' = [pc EXCEPT ![c] = "lock_child"]
    /\ UNCHANGED <<child, child_lock, next_id, connected, connected_lock, version,
                   rid, result, stdin, rpc, rver, sink, allocated>>

\* Mutant of SendLockChild: the guard is taken without waiting for the holder.
SendLockChildNoWait(c) ==
    /\ pc[c] = "lock_child"
    /\ child_lock' = {c}
    /\ pc' = [pc EXCEPT ![c] = "write"]
    /\ UNCHANGED <<child, pending, next_id, connected, connected_lock, version,
                   chan, rid, result, stdin, rpc, rver, sink,
                   allocated>>

\* let mut child_guard = self.child.lock().await;
SendLockChild(c) ==
    /\ pc[c] = "lock_child"
    /\ child_lock = {}
    /\ child_lock' = {c}
    /\ pc' = [pc EXCEPT ![c] = "write"]
    /\ UNCHANGED <<child, pending, next_id, connected, connected_lock, version,
                   chan, rid, result, stdin, rpc, rver, sink,
                   allocated>>

\* Mutant of SendWrite: a failed write marks the engine disconnected.
SendWriteDisconnect(c) ==
    /\ pc[c] = "write"
    /\ child_lock = {c}
    /\ \E ok \in BOOLEAN :
         IF child /\ ok
         THEN /\ stdin' = Append(stdin, Frame(rid[c]))
              /\ child_lock' = {}
              /\ pc' = [pc EXCEPT ![c] = "await"]
              /\ UNCHANGED <<result, connected>>
         ELSE /\ pc' = [pc EXCEPT ![c] = "fail_rm"]
              /\ result' = [result EXCEPT ![c] =
                               IF child THEN Err("WriteFailure") ELSE Err("NoChild")]
              /\ connected' = FALSE
              /\ UNCHANGED <<stdin, child_lock>>
    /\ UNCHANGED <<child, pending, next_id, connected_lock, version,
                   chan, rid, rpc, rver, sink, allocated>>

\* Mutant of SendWrite: the child guard is not scoped to the write; it is
\* still held when the caller goes on to wait for its response.
SendWriteHoldGuard(c) ==
    /\ pc[c] = "write"
    /\ child_lock = {c}
    /\ \E ok \in BOOLEAN :
         IF child /\ ok
         THEN /\ stdin' = Append(stdin, Frame(rid[c]))
              /\ pc' = [pc EXCEPT ![c] = "await"]
              /\ UNCHANGED <<result, child_lock>>
         ELSE /\ pc' = [pc EXCEPT ![c] = "fail_rm"]
              /\ result' = [result EXCEPT ![c] =
                               IF child THEN Err("WriteFailure") ELSE Err("NoChild")]
              /\ UNCHANGED <<stdin, child_lock>>
    /\ UNCHANGED <<child, pending, next_id, connected, connected_lock, version,
                   chan, rid, rpc, rver, sink, allocated>>

\* child.write(msg.as_bytes()) under the child guard; the write can fail.
SendWrite(c) ==
    /\ pc[c] = "write"
    /\ child_lock = {c}
    /\ \E ok \in BOOLEAN :
         IF child /\ ok
         THEN /\ stdin' = Append(stdin, Frame(rid[c]))
              /\ child_lock' = {}
              /\ pc' = [pc EXCEPT ![c] = "await"]
              /\ UNCHANGED result
         ELSE /\ pc' = [pc EXCEPT ![c] = "fail_rm"]
              /\ result' = [result EXCEPT ![c] =
                               IF child THEN Err("WriteFailure") ELSE Err("NoChild")]
              /\ UNCHANGED <<stdin, child_lock>>
    /\ UNCHANGED <<child, pending, next_id, connected, connected_lock, version,
                   chan, rid, rpc, rver, sink, allocated>>

\* Mutant of SendFailRemove: a failed write also marks the engine disconnected.
SendFailDisconnect(c) ==
    /\ pc[c] = "fail_rm"
    /\ pending' = MapRemove(pending, rid[c])
    /\ chan' = [DropEntry(chan, pending, rid[c]) EXCEPT ![rid[c]] = ChanDone]
    /\ child_lock' = {}
    /\ connected' = FALSE
    /\ pc' = [pc EXCEPT ![c] = "done"]
    /\ UNCHANGED <<child, next_id, connected_lock, version, rid, result,
                   stdin, rpc, rver, sink, allocated>>

\* Mutant of SendFailRemove: a failed write clears the whole pending table.
SendFailClear(c) ==
    /\ pc[c] = "fail_rm"
    /\ pending' = << >>
    /\ chan' = [i \in Ids |->
                  IF i = rid[c] THEN ChanDone
                  ELSE IF i \in DOMAIN pending THEN DropSender(chan[i]) ELSE chan[i]]
    /\ child_lock' = {}
    /\ pc' = [pc EXCEPT ![c] = "done"]
    /\ UNCHANGED <<child, next_id, connected, connected_lock, version, rid, result,
                   stdin, rpc, rver, sink, allocated>>

\* Mutant of SendFailRemove: the failure arm takes the child mutex again
\* while its guard is still held (tokio's Mutex is not reentrant).
SendFailRelock(c) ==
    /\ pc[c] = "fail_rm"
    /\ child_lock = {}
    /\ pending' = MapRemove(pending, rid[c])
    /\ chan' = [DropEntry(chan, pending, rid[c]) EXCEPT ![rid[c]] = ChanDone]
    /\ child_lock' = {}
    /\ pc' = [pc EXCEPT ![c] = "done"]
    /\ UNCHANGED <<child, next_id, connected, connected_lock, version, rid, result,
                   stdin, rpc, rver, sink, allocated>>

\* self.pending.lock().await.remove(&id); return Err(...)   (child guard held)
SendFailRemove(c) ==
    /\ pc[c] = "fail_rm"
    /\ pending' = MapRemove(pending, rid[c])
    /\ chan' = [DropEntry(chan, pending, rid[c]) EXCEPT ![rid[c]] = ChanDone]
    /\ child_lock' = {}
    /\ pc' = [pc EXCEPT ![c] = "done"]
    /\ UNCHANGED <<child, next_id, connected, connected_lock, version, rid, result,
                   stdin, rpc, rver, sink, allocated>>

\* timeout(.., rx).await => Ok(Ok(response)) => Ok(response)
SendRecv(c) ==
    /\ pc[c] = "await"
    /\ chan[rid[c]].st = "value"
    /\ result' = [result EXCEPT ![c] = Ok(chan[rid[c]].val)]
    /\ chan' = [chan EXCEPT ![rid[c]] = ChanDone]
    /\ pc' = [pc EXCEPT ![c] = "done"]
    /\ UNCHANGED <<child, child_lock, pending, next_id, connected, connected_lock,
                   version, rid, stdin, rpc, rver, sink, allocated>>

\* timeout(.., rx).await => Ok(Err(_)): the sender was dropped.
SendRecvClosed(c) ==
    /\ pc[c] = "await"
    /\ chan[rid[c]].st = "closed"
    /\ chan' = [chan EXCEPT ![rid[c]] = ChanDone]
    /\ pc' = [pc EXCEPT ![c] = "closed_rm"]
    /\ UNCHANGED <<child, child_lock, pending, next_id, connected, connected_lock,
                   version, rid, result, stdin, rpc, rver, sink,
                   allocated>>

\* Mutant of SendClosedRemove: the closed-channel arm reports a timeout.
SendClosedAsTimeout(c) ==
    /\ pc[c] = "closed_rm"
    /\ pending' = MapRemove(pending, rid[c])
    /\ chan' = DropEntry(chan, pending, rid[c])
    /\ result' = [result EXCEPT ![c] = Err("Timeout")]
    /\ pc' = [pc EXCEPT ![c] = "done"]
    /\ UNCHANGED <<child, child_lock, next_id, connected, connected_lock, version,
                   rid, stdin, rpc, rver, sink, allocated>>

\* self.pending.lock().await.remove(&id); Err("Response channel closed")
SendClosedRemove(c) ==
    /\ pc[c] = "closed_rm"
    /\ pending' = MapRemove(pending, rid[c])
    /\ chan' = DropEntry(chan, pending, rid[c])
    /\ result' = [result EXCEPT ![c] = Err("ChannelClosed")]
    /\ pc' = [pc EXCEPT ![c] = "done"]
    /\ UNCHANGED <<child, child_lock, next_id, connected, connected_lock, version,
                   rid, stdin, rpc, rver, sink, allocated>>

\* Mutant of SendTimeout: the receiver is awaited without a timeout, so an
\* empty channel never lets the caller go.
SendTimeoutNever(c) ==
    /\ pc[c] = "await"
    /\ chan[rid[c]].st = "empty"
    /\ FALSE
    /\ UNCHANGED vars

\* Mutant of SendTimeout: the frame is sent once more when the timeout
\* elapses (a retry inside the dispatcher).
SendTimeoutResend(c) ==
    /\ pc[c] = "await"
    /\ chan[rid[c]].st = "empty"
    /\ chan' = [chan EXCEPT ![rid[c]] = ChanDone]
    /\ stdin' = Append(stdin, Frame(rid[c]))
    /\ pc' = [pc EXCEPT ![c] = "timeout_rm"]
    /\ UNCHANGED <<child, child_lock, pending, next_id, connected, connected_lock,
                   version, rid, result, rpc, rver, sink,
                   allocated>>

\* timeout(.., rx).await => Err(_): COMMAND_TIMEOUT_SECS elapsed with rx not ready.
SendTimeout(c) ==
    /\ pc[c] = "await"
    /\ chan[rid[c]].st = "empty"
    /\ chan' = [chan EXCEPT ![rid[c]] = ChanDone]
    /\ pc' = [pc EXCEPT ![c] = "timeout_rm"]
    /\ UNCHANGED <<child, child_lock, pending, next_id, connected, connected_lock,
                   version, rid, result, stdin, rpc, rver, sink,
                   allocated>>

\* Mutant of SendTimeoutRemove: the timeout arm returns without removing the
\* entry from the pending table.
SendTimeoutKeep(c) ==
    /\ pc[c] = "timeout_rm"
    /\ result' = [result EXCEPT ![c] = Err("Timeout")]
    /\ pc' = [pc EXCEPT ![c] = "done"]
    /\ UNCHANGED <<child, child_lock, pending, next_id, connected, connected_lock,
                   version, chan, rid, stdin, rpc, rver, sink, allocated>>

\* Mutant of SendTimeoutRemove: a timeout cancels every pending request.
SendTimeoutClear(c) ==
    /\ pc[c] = "timeout_rm"
    /\ pending' = << >>
    /\ chan' = [i \in Ids |->
                  IF i \in DOMAIN pending THEN DropSender(chan[i]) ELSE chan[i]]
    /\ result' = [result EXCEPT ![c] = Err("Timeout")]
    /\ pc' = [pc EXCEPT ![c] = "done"]
    /\ UNCHANGED <<child, child_lock, next_id, connected, connected_lock, version,
                   rid, stdin, rpc, rver, sink, allocated>>

\* self.pending.lock().await.remove(&id); Err("Command timed out ...")
SendTimeoutRemove(c) ==
    /\ pc[c] = "timeout_rm"
    /\ pending' = MapRemove(pending, rid[c])
    /\ chan' = DropEntry(chan, pending, rid[c])
    /\ result' = [result EXCEPT ![c] = Err("Timeout")]
    /\ pc' = [pc EXCEPT ![c] = "done"]
    /\ UNCHANGED <<child, child_lock, next_id, connected, connected_lock, version,
                   rid, stdin, rpc, rver, sink, allocated>>

\* The command handler consumed the result; the task may invoke again.
Return(c) ==
    /\ pc[c] = "done"
    /\ pc' = [pc EXCEPT ![c] = "idle"]
    /\ rid' = [rid EXCEPT ![c] = NoId]
    /\ result' = [result EXCEPT ![c] = NoResult]
    /\ UNCHANGED <<child, child_lock, pending, next_id, connected, connected_lock,
                   version, chan, stdin, rpc, rver, sink, allocated>>

\* ------------------------------------------------------------ router task
\* app.shell().sidecar(..).spawn() => Ok((rx, child)): engine.set_child(child)
RouterSpawnOk ==
    /\ rpc = "spawn"
    /\ child_lock = {}
    /\ child' = TRUE
    /\ rpc' = "recv"
    /\ UNCHANGED <<child_lock, pending, next_id, connected, connected_lock, version,
                   chan, pc, rid, result, stdin, rver, sink,
                   allocated>>

\* spawn() => Err(e): the error status is emitted and the task ends.
RouterSpawnErr ==
    /\ rpc = "spawn"
    /\ rpc' = "ended"
    /\ UNCHANGED sink
    /\ UNCHANGED <<child, child_lock, pending, next_id, connected, connected_lock,
                   version, chan, pc, rid, result, stdin, rver, allocated>>

\* Mutant of HandleResponse: a response whose id is not pending is handed to
\* the oldest pending request instead of being dropped.
HandleResponseFallback(r) ==
    IF r.id \in DOMAIN pending
    THEN /\ pending' = MapRemove(pending, r.id)
         /\ chan' = [chan EXCEPT ![pending[r.id]] = SendOn(@, r)]
    ELSE IF pending # << >>
         THEN LET k == CHOOSE m \in DOMAIN pending : \A n \in DOMAIN pending : m <= n
              IN /\ pending' = MapRemove(pending, k)
                 /\ chan' = [chan EXCEPT ![pending[k]] = SendOn(@, r)]
         ELSE UNCHANGED <<pending, chan>>

\* Mutant of HandleResponse: the oldest pending request is resolved, whatever
\* id the response carries (matching by arrival order).
HandleResponseFifo(r) ==
    IF pending # << >>
    THEN LET k == CHOOSE m \in DOMAIN pending : \A n \in DOMAIN pending : m <= n
         IN /\ pending' = MapRemove(pending, k)
            /\ chan' = [chan EXCEPT ![pending[k]] = SendOn(@, r)]
    ELSE UNCHANGED <<pending, chan>>

\* Mutant of HandleResponse: a response whose id is not pending is taken as
\* a protocol desynchronisation and cancels every pending request.
HandleResponseDesync(r) ==
    IF r.id \in DOMAIN pending
    THEN /\ pending' = MapRemove(pending, r.id)
         /\ chan' = [chan EXCEPT ![pending[r.id]] = SendOn(@, r)]
    ELSE /\ pending' = << >>
         /\ chan' = [i \in Ids |->
                       IF i \in DOMAIN pending THEN DropSender(chan[i]) ELSE chan[i]]

\* Mutant of HandleResponse: the sender is looked up (get) and used, but the
\* entry is left in the table.
HandleResponsePeek(r) ==
    IF r.id \in DOMAIN pending
    THEN /\ pending' = pending
         /\ chan' = [chan EXCEPT ![pending[r.id]] = SendOn(@, r)]
    ELSE UNCHANGED <<pending, chan>>

\* PythonEngine::handle_response
HandleResponse(r) ==
    IF r.id \in DOMAIN pending
    THEN /\ pending' = MapRemove(pending, r.id)
         /\ chan' = [chan EXCEPT ![pending[r.id]] = SendOn(@, r)]
    ELSE UNCHANGED <<pending, chan>>

\* PythonEngine::set_disconnected is called by run() but is not part of
\* python_engine.rs as given; modelled from the specification (4.3): the
\* state becomes Disconnected and every pending request is cancelled, which
\* releases its waiting receiver.
SetDisconnected ==
    /\ connected_lock = {}
    /\ connected' = FALSE
    /\ pending' = << >>
    /\ chan' = [i \in Ids |->
                  IF \E k \in DOMAIN pending : pending[k] = i
                  THEN DropSender(chan[i]) ELSE chan[i]]

\* CommandEvent::Stdout(line) whose trimmed text is empty: continue
RouterStdoutEmpty(l) ==
    /\ rpc = "recv"
    /\ l.shape = "empty"
    /\ UNCHANGED vars

\* Mutant of RouterStdoutReady: a handshake starts a fresh session, so the
\* pending requests of the previous one are cancelled.
RouterStdoutReadyReset(l) ==
    /\ rpc = "recv"
    /\ l.shape # "empty"
    /\ parse_stdout(l).tag = "Ready"
    /\ connected_lock = {}
    /\ connected_lock' = {"router"}
    /\ connected' = TRUE
    /\ rver' = parse_stdout(l).version
    /\ rpc' = "set_version"
    /\ pending' = << >>
    /\ chan' = [i \in Ids |->
                  IF i \in DOMAIN pending THEN DropSender(chan[i]) ELSE chan[i]]
    /\ UNCHANGED sink
    /\ UNCHANGED <<child, child_lock, next_id, version, pc, rid,
                   result, stdin, allocated>>

\* Mutant of RouterStdoutReady: the connected guard is dropped as soon as the
\* flag is set, before the version mutex is taken.
RouterStdoutReadyUnlock(l) ==
    /\ rpc = "recv"
    /\ l.shape # "empty"
    /\ parse_stdout(l).tag = "Ready"
    /\ connected_lock = {}
    /\ connected' = TRUE
    /\ rver' = parse_stdout(l).version
    /\ rpc' = "set_version"
    /\ UNCHANGED sink
    /\ UNCHANGED <<child, child_lock, pending, next_id, connected_lock, version,
                   chan, pc, rid, result, stdin, allocated>>

\* CommandEvent::Stdout(line) => Some(StdoutMessage::Ready(signal)):
\* println!, then set_connected up to its second lock().await.
RouterStdoutReady(l) ==
    /\ rpc = "recv"
    /\ l.shape # "empty"
    /\ parse_stdout(l).tag = "Ready"
    /\ connected_lock = {}
    /\ connected_lock' = {"router"}
    /\ connected' = TRUE
    /\ rver' = parse_stdout(l).version
    /\ rpc' = "set_version"
    /\ UNCHANGED sink
    /\ UNCHANGED <<child, child_lock, pending, next_id, version, chan, pc, rid,
                   result, stdin, allocated>>

\* Mutant of RouterSetVersion: set_connected returns without storing the version.
RouterSetVersionSkip ==
    /\ rpc = "set_version"
    /\ connected_lock = {"router"}
    /\ connected_lock' = {}
    /\ rver' = NoVersion
    /\ rpc' = "recv"
    /\ UNCHANGED <<child, child_lock, pending, next_id, connected, version, chan,
                   pc, rid, result, stdin, sink, allocated>>

\* set_connected: *ver = Some(version); both guards drop; emit "idle".
RouterSetVersion ==
    /\ rpc = "set_version"
    /\ connected_lock = {"router"}
    /\ version' = rver
    /\ connected_lock' = {}
    /\ rver' = NoVersion
    /\ rpc' = "recv"
    /\ UNCHANGED <<child, child_lock, pending, next_id, connected, chan, pc, rid,
                   result, stdin, sink, allocated>>

\* CommandEvent::Stdout(line) => Some(StdoutMessage::Response(response))
RouterStdoutResponse(l) ==
    /\ rpc = "recv"
    /\ l.shape # "empty"
    /\ parse_stdout(l).tag = "Response"
    /\ HandleResponse(parse_stdout(l).resp)
    /\ UNCHANGED <<child, child_lock, next_id, connected, connected_lock, version,
                   pc, rid, result, stdin, rpc, rver, sink,
                   allocated>>

\* CommandEvent::Stdout(line) => None: println!("Python stdout: {}", ..)
RouterStdoutDiag(l) ==
    /\ rpc = "recv"
    /\ l.shape # "empty"
    /\ parse_stdout(l).tag = "None"
    /\ sink' = "stdout"
    /\ UNCHANGED <<child, child_lock, pending, next_id, connected, connected_lock,
                   version, chan, pc, rid, result, stdin, rpc, rver,
                   allocated>>

\* Mutant of RouterStderr: stderr lines are parsed like stdout lines, and a
\* response found there is handed to handle_response.
RouterStderrParsed(l) ==
    /\ rpc = "recv"
    /\ sink' = "stderr"
    /\ IF parse_stdout(l).tag = "Response"
       THEN HandleResponse(parse_stdout(l).resp)
       ELSE UNCHANGED <<pending, chan>>
    /\ UNCHANGED <<child, child_lock, next_id, connected, connected_lock,
                   version, pc, rid, result, stdin, rpc, rver,
                   allocated>>

\* CommandEvent::Stderr(line): eprintln!("Python stderr: {}", ..)
RouterStderr(l) ==
    /\ rpc = "recv"
    /\ sink' = "stderr"
    /\ UNCHANGED <<child, child_lock, pending, next_id, connected, connected_lock,
                   version, chan, pc, rid, result, stdin, rpc, rver,
                   allocated>>

\* CommandEvent::Error(err)
RouterError ==
    /\ rpc = "recv"
    /\ SetDisconnected
    /\ UNCHANGED sink
    /\ UNCHANGED <<child, child_lock, next_id, connected_lock, version, pc, rid,
                   result, stdin, rpc, rver, allocated>>

\* CommandEvent::Terminated(payload)
RouterTerminated ==
    /\ rpc = "recv"
    /\ SetDisconnected
    /\ UNCHANGED sink
    /\ UNCHANGED <<child, child_lock, next_id, connected_lock, version, pc, rid,
                   result, stdin, rpc, rver, allocated>>

\* ------------------------------------------------------------------- Next
Next ==
    \/ \E c \in Callers : SendCheck(c)
    \/ \E c \in Callers : SendAlloc(c)
    \/ \E c \in Callers : SendRegister(c)
    \/ \E c \in Callers : SendLockChild(c)
    \/ \E c \in Callers : SendWrite(c)
    \/ \E c \in Callers : SendFailRemove(c)
    \/ \E c \in Callers : SendRecv(c)
    \/ \E c \in Callers : SendRecvClosed(c)
    \/ \E c \in Callers : SendClosedRemove(c)
    \/ \E c \in Callers : SendTimeout(c)
    \/ \E c \in Callers : SendTimeoutRemove(c)
    \/ \E c \in Callers : Return(c)
    \/ RouterSpawnOk
    \/ RouterSpawnErr
    \/ \E l \in Lines : RouterStdoutEmpty(l)
    \/ \E l \in Lines : RouterStdoutReady(l)
    \/ RouterSetVersion
    \/ \E l \in Lines : RouterStdoutResponse(l)
    \/ \E l \in Lines : RouterStdoutDiag(l)
    \/ \E l \in StderrLines : RouterStderr(l)
    \/ RouterError
    \/ RouterTerminated

Spec == Init /\ [][Next]_vars

\* ---------------------------------------------------------------- fairness
\* The steps of a send_command that has passed the connected check. The
\* runtime polls a task whose future is ready, and the timer of
\* tokio::time::timeout fires: a step that stays possible is taken.
SendStep(c) ==
    \/ SendAlloc(c)
    \/ SendRegister(c)
    \/ SendWrite(c)
    \/ SendFailRemove(c)
    \/ SendRecv(c)
    \/ SendRecvClosed(c)
    \/ SendClosedRemove(c)
    \/ SendTimeout(c)
    \/ SendTimeoutRemove(c)

\* tokio::sync::Mutex hands the guard to its waiters in FIFO order: a caller
\* that waits for the child guard gets it once it is free often enough. No
\* fairness is assumed of the router or of the sidecar.
FairSpec ==
    /\ Spec
    /\ \A c \in Callers : WF_vars(SendStep(c))
    /\ \A c \in Callers : SF_vars(SendLockChild(c))

\* ================================================================ claims
\* C1: the request ids handed out by send_command are strictly increasing in
\* allocation order, hence pairwise distinct and never handed out again, also
\* after the request completed, timed out or failed; no two invocations hold
\* the same id.
C1_IdsStrictlyIncreasing ==
    /\ \A i, j \in 1..Len(allocated) : i < j => allocated[i] < allocated[j]
    /\ \A c, d \in Callers : (c # d /\ rid[c] # NoId) => rid[c] # rid[d]
    /\ \A c \in Callers :
         rid[c] # NoId => \E i \in 1..Len(allocated) : allocated[i] = rid[c]

\* An id is handed out after the request of an earlier id has completed and
\* returned.
C1_Witness ==
    /\ Len(allocated) = 2
    /\ chan[allocated[1]].st = "done"
    /\ \E c \in Callers :
         /\ rid[c] = allocated[2]
         /\ pc[c] = "register"
         /\ \A d \in Callers \ {c} : pc[d] = "idle"

\* C2: whatever the order in which responses are delivered, a caller that
\* returns a response returns the one carrying the id it allocated; a value
\* waiting in a request's channel carries that request's id.
C2_ResponseMatchesCaller ==
    /\ \A c \in Callers : result[c].kind = "Ok" => result[c].resp.id = rid[c]
    /\ \A i \in Ids : chan[i].st = "value" => chan[i].val.id = i

\* Two requests were written in the order 1, 2; the response for 2 has been
\* returned to its caller while the caller of 1 is still waiting.
C2_Witness ==
    \E c, d \in Callers :
        /\ rid[c] = 1 /\ rid[d] = 2
        /\ Len(stdin) = 2 /\ stdin[1].id = 1 /\ stdin[2].id = 2
        /\ pc[d] = "done" /\ result[d].kind = "Ok"
        /\ pc[c] = "await" /\ chan[1].st = "empty"

\* Steps of the router, as seen by the claims.
HandshakeStep == (\E l \in Lines : RouterStdoutReady(l)) \/ RouterSetVersion
DisconnectStep == RouterError \/ RouterTerminated
RouterStdout(l) ==
    \/ RouterStdoutEmpty(l)
    \/ RouterStdoutReady(l)
    \/ RouterStdoutResponse(l)
    \/ RouterStdoutDiag(l)

\* The stdout lines that parse_stdout turns into a response.
ResponseLines == {l \in Lines : parse_stdout(l).tag = "Response"}

\* C3: handle_response resolves a request's slot at most once. Once a
\* channel holds a value, was cancelled or was given up by its caller, no
\* step delivers a (further) value into it; and a response whose id is not in
\* the pending table (a duplicate, or one arriving after the timeout or
\* write-failure path removed the slot) changes nothing at all: the router
\* is back at its receive loop with every variable as before.
C3_CompleteAtMostOnce ==
    [][/\ \A i \in Ids :
            chan[i].st \in {"value", "closed", "done"} =>
                (chan'[i] = chan[i] \/ chan'[i].st # "value")
       /\ \A l \in ResponseLines :
            (/\ parse_stdout(l).resp.id \notin DOMAIN pending
             /\ RouterStdoutResponse(l)) => UNCHANGED vars]_vars

\* A request was resolved by handle_response and returned, its slot is gone
\* and another request is still pending: a second response for the same id
\* is about to be processed by the router.
C3_Witness ==
    /\ rpc = "recv"
    /\ pending # << >>
    /\ \E c \in Callers :
         /\ pc[c] = "done"
         /\ result[c].kind = "Ok"
         /\ rid[c] \notin DOMAIN pending

\* C4: a request that times out (its channel was still empty when the
\* timeout elapsed) makes send_command return Timeout with its id removed
\* from the pending table, and a response for that id processed after the
\* return is a no-op.
C4_TimeoutRemovesSlot ==
    /\ \A c \in Callers : result[c].kind # "Timeout"
    /\ [][/\ \A c \in Callers :
               result'[c].kind = "Timeout" =>
                   /\ pc'[c] = "done"
                   /\ rid'[c] \notin DOMAIN pending'
                   /\ chan'[rid'[c]].st = "done"
          /\ \A c \in Callers :
               (pc[c] = "await" /\ pc'[c] = "timeout_rm") => chan[rid[c]].st = "empty"
          /\ \A c \in Callers :
               (pc[c] = "timeout_rm" /\ pc'[c] # "timeout_rm") =>
                   /\ pc'[c] = "done"
                   /\ result'[c] = Err("Timeout")
                   /\ rid[c] \notin DOMAIN pending'
          /\ \A c \in Callers : \A l \in Lines :
               (/\ result[c].kind = "Timeout"
                /\ parse_stdout(l).resp.id = rid[c]
                /\ RouterStdoutResponse(l)) => UNCHANGED vars]_vars

\* A request whose frame was written returned Timeout while the router is
\* still receiving (a late response can follow).
C4_Witness ==
    /\ rpc = "recv"
    /\ connected
    /\ \E c \in Callers :
         /\ pc[c] = "done"
         /\ result[c].kind = "Timeout"
         /\ \E k \in 1..Len(stdin) : stdin[k].id = rid[c]

\* C5: when the router handles a Terminated or Error event, the pending
\* table is emptied and every caller blocked on an unresolved channel finds
\* it closed; a caller whose channel is closed can leave its wait at once
\* (no timeout is involved), leaves it only through the closed-channel arm,
\* and returns ChannelClosed.
C5_TerminationReleasesPending ==
    [][/\ DisconnectStep =>
            /\ pending' = << >>
            /\ \A c \in Callers :
                 (pc[c] = "await" /\ chan[rid[c]].st = "empty") =>
                     chan'[rid[c]].st = "closed"
       /\ \A c \in Callers :
            (pc[c] = "await" /\ chan[rid[c]].st = "closed") =>
                /\ ENABLED SendRecvClosed(c)
                /\ ~ENABLED SendTimeout(c)
                /\ pc'[c] \in {"await", "closed_rm"}
       /\ \A c \in Callers :
            (pc[c] = "closed_rm" /\ pc'[c] # "closed_rm") =>
                /\ pc'[c] = "done"
                /\ result'[c] = Err("ChannelClosed")
                /\ rid[c] \notin DOMAIN pending']_vars

\* Both callers were blocked on written requests when the sidecar
\* terminated, and both returned ChannelClosed.
C5_Witness ==
    /\ ~connected
    /\ Len(stdin) = 2
    /\ \A c \in Callers : pc[c] = "done" /\ result[c].kind = "ChannelClosed"

\* C6: send_command invoked while Disconnected returns NotConnected in its
\* first step and changes nothing else: no id is drawn, no channel is
\* created, no entry is added to the pending table, nothing is written.
C6_NotConnectedNoEffect ==
    [][\A c \in Callers :
            (pc[c] = "idle" /\ ~is_connected /\ pc'[c] # "idle") =>
                /\ pc'[c] = "done"
                /\ result'[c] = Err("NotConnected")
                /\ UNCHANGED <<next_id, allocated, pending, chan, stdin, rid,
                               connected, version, child>>]_vars

\* A send_command was rejected after the engine had been connected and had
\* served a request before.
C6_Witness ==
    /\ ~connected
    /\ Len(stdin) = 1
    /\ \E c \in Callers : pc[c] = "done" /\ result[c].kind = "NotConnected"

\* C7: a handshake line processed while Disconnected makes the state
\* Connected with the carried version (set_connected stores the version it
\* was called with), and from then on is_connected() is true and
\* get_version() is that version across every step that is neither another
\* handshake nor a disconnect.
C7_HandshakeConnects ==
    [][/\ \A l \in Lines :
            (~connected /\ RouterStdoutReady(l)) =>
                /\ l.status = "ready"
                /\ connected'
                /\ rver' = l.version
                /\ rver' \in Versions
       /\ RouterSetVersion => (is_connected' /\ get_version' = rver /\ connected_lock' = {})
       /\ \A v \in Versions :
            (/\ is_connected /\ get_version = v /\ connected_lock = {}
             /\ ~(is_connected' /\ get_version' = v /\ connected_lock' = {})) =>
                (HandshakeStep \/ DisconnectStep)]_vars

\* The engine was Disconnected, the handshake with version 1.2.3 completed,
\* and a request was already accepted afterwards.
C7_Witness ==
    /\ is_connected
    /\ get_version = "1.2.3"
    /\ connected_lock = {}
    /\ rpc = "recv"
    /\ \E c \in Callers : pc[c] = "await"

\* The shapes of section 6 of the specification, read off a line.
HandshakeShape(l) ==
    l.shape = "json" /\ l.status = "ready" /\ l.version # NoVersion /\ l.pid_ok
ResponseShape(l) ==
    l.shape = "json" /\ l.id # NoId /\ l.status \in {"ready", "success", "error"}

NeitherLines ==
    {l \in Lines : l.shape # "empty" /\ ~HandshakeShape(l) /\ ~ResponseShape(l)}

C9_ConnectionTransitions ==
    /\ ~connected
    /\ [][/\ (~connected /\ connected') =>
                \E l \in Lines : HandshakeShape(l) /\ RouterStdoutReady(l)
          /\ (connected /\ ~connected') => DisconnectStep]_vars

\* The state went Disconnected -> Connected -> Disconnected while a caller
\* had already failed a write.
C9_Witness ==
    /\ ~connected
    /\ version \in Versions
    /\ \E c \in Callers : pc[c] = "done" /\ result[c].kind = "WriteFailure"

\* C10: handling an Error or Terminated event leaves the state Disconnected;
\* while it is Disconnected every send_command that starts is rejected with
\* NotConnected, and the state leaves Disconnected only by a handshake.
C10_DisconnectRejectsSends ==
    [][/\ DisconnectStep => (~is_connected' /\ connected_lock' = {})
       /\ \A c \in Callers :
            (~is_connected /\ pc[c] = "idle" /\ pc'[c] # "idle") =>
                (pc'[c] = "done" /\ result'[c].kind = "NotConnected")
       /\ (~is_connected /\ is_connected') =>
            \E l \in Lines : RouterStdoutReady(l)]_vars

\* After a termination released a waiting caller, the next send_command was
\* rejected.
C10_Witness ==
    /\ ~connected
    /\ \E c, d \in Callers :
         /\ pc[c] = "done" /\ result[c].kind = "ChannelClosed"
         /\ pc[d] = "done" /\ result[d].kind = "NotConnected"

\* C11: when the write fails (the write returns an error, or there is no
\* child handle), send_command removes the id it registered from the pending
\* table before it returns the write-failure error, and that removal leaves
\* every other entry of the table, and its channel, as it was.
C11_WriteFailureRemovesOwnSlot ==
    [][\A c \in Callers :
         /\ (pc[c] = "write" /\ pc'[c] = "fail_rm") =>
                /\ result'[c].kind \in {"WriteFailure", "NoChild"}
                /\ UNCHANGED <<pending, chan, stdin>>
         /\ (pc[c] = "fail_rm" /\ pc'[c] # "fail_rm") =>
                /\ pc'[c] = "done"
                /\ result'[c] = result[c]
                /\ rid[c] \notin DOMAIN pending'
                /\ DOMAIN pending' = (DOMAIN pending) \ {rid[c]}
                /\ \A k \in DOMAIN pending' :
                     pending'[k] = pending[k] /\ chan'[pending[k]] = chan[pending[k]]
         /\ (pc'[c] = "done" /\ result'[c].kind \in {"WriteFailure", "NoChild"}) =>
                rid'[c] \notin DOMAIN pending']_vars

\* A caller returned the write-failure error while the request of the other
\* caller is still registered and waiting.
C11_Witness ==
    \E c, d \in Callers :
        /\ pc[c] = "done" /\ result[c].kind = "WriteFailure"
        /\ rid[c] \notin DOMAIN pending
        /\ pc[d] = "await" /\ rid[d] \in DOMAIN pending
        /\ chan[rid[d]].st = "empty"

\* C12, as stated: a write failure is a disconnect trigger, so in the step
\* in which send_command returns WriteFailure the connection state is
\* Disconnected.
C12_WriteFailureDisconnects ==
    [][\A c \in Callers :
         (pc[c] = "fail_rm" /\ pc'[c] = "done" /\ result'[c].kind = "WriteFailure")
             => ~is_connected']_vars

\* C12, amended: a write failure does not touch the connection state. The
\* failing write and the removal that follows it leave the connected flag
\* and the version as they were, so send_command can return WriteFailure
\* with the state still Connected.
C12_WriteFailureKeepsConnection ==
    [][\A c \in Callers :
         (/\ pc[c] \in {"write", "fail_rm"}
          /\ pc'[c] \in {"fail_rm", "done"}
          /\ pc'[c] # pc[c]) =>
             UNCHANGED <<connected, connected_lock, version>>]_vars

\* send_command has returned WriteFailure and the state is still Connected:
\* the next invocation passes the connected check.
C12_Witness ==
    /\ is_connected
    /\ connected_lock = {}
    /\ \E c, d \in Callers :
         /\ pc[c] = "done" /\ result[c].kind = "WriteFailure"
         /\ pc[d] = "alloc"

\* The callers inside the section guarded by the child mutex: from the
\* acquisition of the guard to its release after the write (or after the
\* removal that follows a failed write).
Writing == {c \in Callers : pc[c] \in {"write", "fail_rm"}}

\* C13: writes to the sidecar's stdin are mutually exclusive. At most one
\* caller is between acquiring and releasing the child guard, it is the
\* holder of the guard, and stdin grows only by the holder appending its own
\* whole frame while no other caller is in the guarded section.
C13_WritesMutuallyExclusive ==
    [][/\ Cardinality(Writing') <= 1
       /\ child_lock' = Writing'
       /\ stdin' # stdin =>
            \E c \in Callers :
                /\ Writing = {c}
                /\ pc[c] = "write"
                /\ child_lock = {c}
                /\ stdin' = Append(stdin, Frame(rid[c]))]_vars

\* Two send_command calls contend for stdin: one holds the guard and is
\* about to write, the other has registered and waits for the guard.
C13_Witness ==
    \E c, d \in Callers :
        /\ pc[c] = "write" /\ child_lock = {c}
        /\ pc[d] = "lock_child"
        /\ rid[d] < rid[c]

\* Stdout lines that carry a request id and a status string but whose
\* "error" member has an unexpected shape.
MalformedLines ==
    {l \in Lines : l.shape = "json" /\ l.id # NoId /\ ~l.err_ok
                   /\ l.status \in {"success", "error"}}

\* C14, as stated: when the router processes a line that names a pending
\* request whose caller is waiting, but has an unexpected payload shape, the
\* request's slot is consumed in that step and its caller is resolved (it
\* no longer waits on an empty channel until its timeout).
C14_MalformedResponseSurfaced ==
    [][\A c \in Callers : \A l \in MalformedLines :
         (/\ pc[c] = "await" /\ rid[c] = l.id
          /\ l.id \in DOMAIN pending
          /\ RouterStdout(l)) =>
             /\ l.id \notin DOMAIN pending'
             /\ chan'[rid[c]].st # "empty"]_vars

\* The steps by which the request of caller c times out or fails on write.
TimeoutOrFailStep(c) ==
    \/ pc[c] = "await" /\ pc'[c] = "timeout_rm"
    \/ pc[c] = "timeout_rm" /\ pc'[c] = "done"
    \/ pc[c] = "write" /\ pc'[c] = "fail_rm"
    \/ pc[c] = "fail_rm" /\ pc'[c] = "done"

\* C15: timeouts are independent. A step in which one request times out or
\* fails on write removes at most that request's id from the pending table
\* and leaves every other caller, its entry and its channel as they were;
\* and a request that is still registered is resolved by its own response
\* also after another request has timed out or failed.
C15_TimeoutsIndependent ==
    [][/\ \A c \in Callers :
            TimeoutOrFailStep(c) =>
                /\ (DOMAIN pending) \ (DOMAIN pending') \subseteq {rid[c]}
                /\ \A k \in (DOMAIN pending) \ {rid[c]} :
                     k \in DOMAIN pending' /\ pending'[k] = pending[k]
                /\ \A i \in Ids \ {rid[c]} : chan'[i] = chan[i]
                /\ \A d \in Callers \ {c} :
                     pc'[d] = pc[d] /\ rid'[d] = rid[d] /\ result'[d] = result[d]
       /\ \A c, d \in Callers : \A l \in ResponseLines :
            (/\ result[c].kind \in {"Timeout", "WriteFailure"}
             /\ d # c
             /\ pc[d] = "await"
             /\ rid[d] \in DOMAIN pending
             /\ chan[rid[d]].st = "empty"
             /\ parse_stdout(l).resp.id = rid[d]
             /\ RouterStdoutResponse(l)) =>
                chan'[rid[d]] = ChanValue(parse_stdout(l).resp)]_vars

\* Both requests were written; one has timed out and returned, the other is
\* still registered and waiting for its response.
C15_Witness ==
    \E c, d \in Callers :
        /\ pc[c] = "done" /\ result[c].kind = "Timeout"
        /\ Len(stdin) = 2
        /\ pc[d] = "await" /\ rid[d] \in DOMAIN pending
        /\ chan[rid[d]].st = "empty"

\* C16: handle_response called with an id that is not in the pending table
\* (never allocated, already resolved, or removed by a timeout or a failed
\* write) is a silent no-op: the pending table, the connection state, the
\* version and the id counter are unchanged, and no caller is resolved or
\* failed (every channel, result and position of a caller is unchanged).
C16_UnknownIdNoOp ==
    [][\A l \in ResponseLines :
         (/\ parse_stdout(l).resp.id \notin DOMAIN pending
          /\ RouterStdoutResponse(l)) =>
             /\ UNCHANGED <<pending, connected, connected_lock, version, next_id>>
             /\ UNCHANGED <<chan, result, pc, rid>>]_vars

\* The router is receiving while one request is pending, another id was
\* given up by its caller after a timeout (a late response can arrive) and
\* the table does not hold it.
C16_Witness ==
    /\ rpc = "recv"
    /\ \E c, d \in Callers :
         /\ pc[c] = "done" /\ result[c].kind = "Timeout"
         /\ rid[c] \notin DOMAIN pending
         /\ rid[d] \in DOMAIN pending
         /\ chan[rid[d]].st = "empty"
    /\ \E l \in ResponseLines : parse_stdout(l).resp.id \notin DOMAIN pending

\* The stdout lines that parse_stdout turns into a handshake.
ReadyLines == {l \in Lines : parse_stdout(l).tag = "Ready"}

\* C17: a handshake processed while the state is already Connected keeps it
\* Connected and overwrites the version with the one the line carries
\* (set_connected is called with it and stores it); the router is back at
\* its receive loop, no caller is failed, and the pending table, the
\* channels and the id counter are unchanged.
C17_RepeatedHandshake ==
    [][/\ \A l \in ReadyLines :
            (is_connected /\ RouterStdoutReady(l)) =>
                /\ is_connected'
                /\ rver' = l.version
                /\ rpc' = "set_version"
                /\ UNCHANGED <<pending, chan, next_id, result, pc, rid>>
       /\ (is_connected /\ RouterSetVersion) =>
                /\ is_connected'
                /\ get_version' = rver
                /\ rpc' = "recv"
                /\ UNCHANGED <<pending, chan, next_id, result, pc, rid>>]_vars

\* A second handshake, carrying another version, is being processed while a
\* request written under the first one is still pending: the state is
\* Connected, the stored version is still the old one.
C17_Witness ==
    /\ rpc = "set_version"
    /\ is_connected
    /\ get_version = "1.2.3"
    /\ rver = "2.0.0"
    /\ \E c \in Callers :
         /\ pc[c] = "await" /\ rid[c] \in DOMAIN pending
         /\ chan[rid[c]].st = "empty"

\* The outcomes of send_command: Ok(response), or Err with one of the
\* messages of python_engine.rs (not connected, write failed or no child,
\* timed out, channel closed).
Outcomes == {"Ok", "NotConnected", "WriteFailure", "NoChild", "Timeout", "ChannelClosed"}

\* C18: every send_command invocation eventually returns, with exactly one
\* outcome. An invocation that is under way (past its connected check, in
\* particular one whose frame is written and that waits for the response)
\* reaches its return whether or not the router ever delivers a response;
\* a returned invocation holds one of the outcomes, and one that has not
\* returned holds no response.
C18_SendCommandReturns ==
    /\ \A c \in Callers : (pc[c] \notin {"idle", "done"}) ~> (pc[c] = "done")
    /\ [](\A c \in Callers :
            /\ pc[c] = "done" => result[c].kind \in Outcomes
            /\ pc[c] \notin {"done", "fail_rm"} => result[c] = NoResult)

\* Both invocations have returned although no response was ever delivered:
\* one timed out, the other failed on write.
C18_Witness ==
    /\ \A i \in Ids : chan[i].st \in {"none", "done"}
    /\ \E c, d \in Callers :
         /\ pc[c] = "done" /\ result[c].kind = "Timeout"
         /\ pc[d] = "done" /\ result[d].kind = "WriteFailure"

\* C19: whenever a send_command has returned, by whichever exit path, the
\* pending table holds no entry for the id it allocated; equivalently, every
\* id in the table belongs to an invocation that has registered it and has
\* not yet returned.
C19_ReturnedIdNotPending ==
    /\ \A c \in Callers :
         (pc[c] = "done" /\ rid[c] # NoId) => rid[c] \notin DOMAIN pending
    /\ \A k \in DOMAIN pending :
         \E c \in Callers :
             /\ rid[c] = k
             /\ pc[c] \in {"lock_child", "write", "fail_rm", "await",
                           "timeout_rm", "closed_rm"}

\* Both requests were written; one invocation returned its response, the
\* other returned Timeout, and the table is empty again.
C19_Witness ==
    /\ Len(stdin) = 2
    /\ pending = << >>
    /\ \E c, d \in Callers :
         /\ pc[c] = "done" /\ result[c].kind = "Ok"
         /\ pc[d] = "done" /\ result[d].kind = "Timeout"

\* The step in which caller c writes its frame to stdin.
WritesFrame(c) ==
    /\ pc[c] = "write"
    /\ stdin' = Append(stdin, Frame(rid[c]))

\* C20, as stated: at the moment the frame with id i is written, the pending
\* table holds the slot for i that the writing caller registered before;
\* and registering i never replaces a slot that is already in the table.
C20_SlotPresentAtWrite ==
    [][/\ \A c \in Callers :
            (pc[c] = "register" /\ pc'[c] # "register") =>
                rid[c] \notin DOMAIN pending
       /\ stdin' # stdin =>
            \E c \in Callers :
                /\ WritesFrame(c)
                /\ rid[c] \in DOMAIN pending
                /\ pending[rid[c]] = rid[c]]_vars

\* C20, amended: the writing caller registered the slot for i before the
\* write, as a new key (registering never replaces a slot and drops no
\* sender), and no other caller holds i. At the moment of the write the slot
\* is still in the table with its channel unresolved, unless a response
\* carrying i or a disconnect was processed since the registration: then
\* the key is gone and the channel already holds that response or is closed.
C20_SlotRegisteredBeforeWrite ==
    [][/\ \A c \in Callers :
            (pc[c] = "register" /\ pc'[c] # "register") =>
                /\ rid[c] \notin DOMAIN pending
                /\ pending' = MapInsert(pending, rid[c], rid[c])
                /\ chan[rid[c]].st = "empty"
                /\ chan' = chan
       /\ stdin' # stdin =>
            \E c \in Callers :
                /\ WritesFrame(c)
                /\ \A d \in Callers \ {c} : rid[d] # rid[c]
                /\ IF rid[c] \in DOMAIN pending
                   THEN pending[rid[c]] = rid[c] /\ chan[rid[c]].st = "empty"
                   ELSE chan[rid[c]].st \in {"value", "closed"}]_vars

\* A caller holds the child guard and is about to write its frame, but the
\* slot it registered has already been taken out of the table.
C20_Witness ==
    \E c \in Callers :
        /\ pc[c] = "write"
        /\ child_lock = {c}
        /\ rid[c] \notin DOMAIN pending
        /\ chan[rid[c]].st \in {"value", "closed"}

\* The non-blank stdout lines with the "ready" marker and a complete
\* handshake, and those without the marker that carry an unsigned id and a
\* status string.
MarkedLines == {l \in Lines : l.shape # "empty" /\ HandshakeShape(l)}
EnvelopeLines ==
    {l \in Lines : l.shape = "json" /\ l.status \in {"success", "error"}
                   /\ l.id # NoId}

\* C21, as stated: stdout lines are classified in a fixed order. A line with
\* the "ready" marker is processed as a handshake; otherwise a line with an
\* unsigned id and a status is forwarded to handle_response with that id
\* (the entry for that id, if any, leaves the pending table); the
\* diagnostic sink gets only lines that are neither, so no line of response
\* shape is printed as diagnostic text.
C21_ClassificationOrder ==
    [][/\ \A l \in MarkedLines : RouterStdout(l) => RouterStdoutReady(l)
       /\ \A l \in EnvelopeLines :
            RouterStdout(l) =>
                /\ RouterStdoutResponse(l)
                /\ parse_stdout(l).resp.id = l.id
                /\ l.id \notin DOMAIN pending'
                /\ sink' = sink]_vars

\* C22: a line of the sidecar's stderr is never correlation-matched and
\* never taken for a handshake. Whatever it contains (a well-formed
\* response or ready line included), processing it only prints it: the
\* pending table, the channels, the connection state, the version, the id
\* counter and every caller are unchanged, and the router is back at its
\* receive loop.
C22_StderrNeverMatched ==
    [][\A l \in StderrLines :
         RouterStderr(l) =>
             /\ sink' = "stderr"
             /\ rpc' = "recv"
             /\ UNCHANGED <<pending, chan, connected, connected_lock, version,
                            rver, next_id, pc, rid, result, stdin>>]_vars

\* A stderr line was printed while request 1 is written and still waiting,
\* and the stderr lines include a well-formed response for id 1 and a
\* complete ready line.
C22_Witness ==
    /\ sink = "stderr"
    /\ rpc = "recv"
    /\ \E c \in Callers :
         /\ pc[c] = "await" /\ rid[c] = 1
         /\ 1 \in DOMAIN pending
         /\ chan[1].st = "empty"
    /\ \E l \in StderrLines :
         parse_stdout(l).tag = "Response" /\ parse_stdout(l).resp.id = 1
    /\ \E l \in StderrLines : parse_stdout(l).tag = "Ready"

\* C23: no caller observes a partial update of the connection state. In
\* every state in which is_connected() can return (the connected mutex is
\* free) and returns true, get_version() returns a version, never None: the
\* state with the flag set and no version stored exists only while
\* set_connected holds the connected guard.
C23_NoPartialUpdate ==
    (connected_lock = {} /\ is_connected) => get_version \in Versions

\* set_connected is half done for the first handshake: the flag is set, the
\* version is still None, and the router holds the connected guard while a
\* caller that was rejected before is about to read the state again.
C23_Witness ==
    /\ rpc = "set_version"
    /\ connected
    /\ version = NoVersion
    /\ connected_lock = {"router"}
    /\ \E c, d \in Callers :
         /\ pc[c] = "done" /\ result[c].kind = "NotConnected"
         /\ pc[d] = "idle"

\* The callers suspended on their response channel or its timeout.
Suspended == {c \in Callers : pc[c] = "await"}

\* C24: a caller suspended awaiting its response or timeout holds no lock.
\* Neither the child guard nor the connected guard is held by a suspended
\* caller; a caller that wants the child guard while every other caller is
\* suspended (or not in send_command) gets it at once; and the router at
\* its receive loop can run handle_response and start set_connected for any
\* line, however many callers are suspended.
C24_NoLockWhileSuspended ==
    /\ \A c \in Suspended : c \notin child_lock /\ c \notin connected_lock
    /\ \A d \in Callers :
         (/\ pc[d] = "lock_child"
          /\ \A c \in Callers \ {d} : pc[c] \in {"await", "idle", "done"})
             => ENABLED SendLockChild(d)
    /\ rpc = "recv" =>
         /\ \A l \in ResponseLines : ENABLED RouterStdoutResponse(l)
         /\ \A l \in ReadyLines : ENABLED RouterStdoutReady(l)

\* While one caller is still suspended on an unanswered request, a caller
\* that registered later has completed its round trip, and the router is
\* inside set_connected.
C24_Witness ==
    /\ rpc = "set_version"
    /\ \E c, d \in Callers :
         /\ c \in Suspended /\ chan[rid[c]].st = "empty"
         /\ pc[d] = "done" /\ result[d].kind = "Ok"
         /\ rid[c] < rid[d]

\* C25: each send_command invocation writes at most one frame, and none on
\* the NotConnected path. No id occurs twice on stdin and every frame
\* carries an allocated id (one id per invocation); stdin grows only in the
\* write step of an invocation, by that invocation's frame; and the steps
\* of the NotConnected, timeout, write-failure and closed-channel paths
\* write nothing.
C25_AtMostOneFrame ==
    [][/\ \A i, j \in 1..Len(stdin') : i # j => stdin'[i].id # stdin'[j].id
       /\ \A k \in 1..Len(stdin') :
            \E a \in 1..Len(allocated') : allocated'[a] = stdin'[k].id
       /\ stdin' # stdin =>
            \E c \in Callers :
                /\ pc[c] = "write" /\ pc'[c] = "await"
                /\ stdin' = Append(stdin, Frame(rid[c]))
       /\ \A c \in Callers :
            (/\ pc'[c] # pc[c]
             /\ \/ pc[c] \in {"idle", "await", "timeout_rm", "closed_rm",
                              "fail_rm", "done"}
                \/ pc'[c] = "fail_rm") => stdin' = stdin]_vars

\* One invocation wrote its frame, timed out and returned; the other was
\* rejected with NotConnected: one frame is on stdin.
C25_Witness ==
    /\ Len(stdin) = 1
    /\ \E c, d \in Callers :
         /\ pc[c] = "done" /\ result[c].kind = "Timeout"
         /\ stdin[1].id = rid[c]
         /\ pc[d] = "done" /\ result[d].kind = "NotConnected"

\* The callers that have passed the connected check and not yet written.
BeforeWrite == {c \in Callers : pc[c] \in {"alloc", "register", "lock_child", "write"}}

\* C26, as stated: no frame is written while the connection state is
\* Disconnected; the state is Connected in every step that writes a frame.
C26_NoWriteWhileDisconnected ==
    [][stdin' # stdin => is_connected]_vars

\* C26, amended: a frame is written only by an invocation whose connected
\* check found the state Connected, hence after a handshake and to a spawned
\* sidecar; between that check and the write the state leaves Connected
\* only through an Error or Terminated event, and then the frame is written
\* all the same.
C26_WriteAfterConnectedCheck ==
    [][/\ \A c \in Callers :
            (pc[c] = "idle" /\ pc'[c] = "alloc") => (is_connected /\ is_connected')
       /\ (BeforeWrite # {} /\ is_connected /\ ~is_connected') => DisconnectStep
       /\ stdin' # stdin =>
            \E c \in Callers :
                /\ WritesFrame(c)
                /\ c \in BeforeWrite
                /\ get_version \in Versions
                /\ child]_vars

\* The state is Disconnected and the table holds the entry of a request
\* whose frame is on stdin: the disconnect emptied the table, so the entry
\* was registered, and the frame written, after it.
C26_Witness ==
    /\ ~is_connected
    /\ \E c \in Callers :
         /\ pc[c] = "await"
         /\ rid[c] \in DOMAIN pending
         /\ \E k \in 1..Len(stdin) : stdin[k].id = rid[c]

\* C27: the lock acquisitions never deadlock. The holder of the child guard
\* can always take its next step (the write, or the removal from the
\* pending table that follows a failed write), and so can the router while
\* it holds the connected guard inside set_connected; a caller waiting for
\* the child guard either gets it or its holder can move; a reader of
\* is_connected, and the router before set_child and set_connected, wait
\* only for a holder that can move.
C27_NoLockDeadlock ==
    /\ \A c \in child_lock : ENABLED SendWrite(c) \/ ENABLED SendFailRemove(c)
    /\ connected_lock # {} => ENABLED RouterSetVersion
    /\ \A c \in Callers :
         pc[c] = "lock_child" =>
             \/ ENABLED SendLockChild(c)
             \/ \E d \in child_lock : ENABLED SendWrite(d) \/ ENABLED SendFailRemove(d)
    /\ \A c \in Callers :
         pc[c] = "idle" => (connected_lock = {} \/ ENABLED RouterSetVersion)
    /\ rpc = "spawn" => ENABLED RouterSpawnOk
    /\ rpc = "recv" => \A l \in ReadyLines : ENABLED RouterStdoutReady(l)

\* All locks are in use at once: one caller holds the child guard after a
\* failed write and is about to take the pending mutex, the other waits for
\* the child guard, and the router holds the connected guard inside
\* set_connected.
C27_Witness ==
    /\ rpc = "set_version"
    /\ connected_lock = {"router"}
    /\ \E c, d \in Callers :
         /\ pc[c] = "fail_rm" /\ child_lock = {c}
         /\ pc[d] = "lock_child"

=============================================================================
